---- MODULE Spec2Model ----
(***************************************************************************)
(* A model of maze_toolkit.py: the Maze class (wall grid, allowed cells,   *)
(* mask), its two generators (recursive backtracker with a frontier        *)
(* strategy, Kruskal with union-find) and its breadth-first solver.        *)
(*                                                                         *)
(* Cells are pairs <<r, c>>.  The wall grid is a function from grid        *)
(* positions <<gr, gc>> to 1 (wall) or 0 (passage).  Python lists are      *)
(* sequences; Python's 0-based indices are kept and 1 is added where a     *)
(* sequence is indexed.                                                    *)
(***************************************************************************)
EXTENDS Integers, Sequences, FiniteSets, TLC

\* ---------------------------------------------------------------- bounds

\* The largest width and the largest height of a maze, in cells.
MaxSide == 2

\* The most generation calls made on one Maze object.
MaxGens == 2

\* Floats are the multiples of 1/Den: random.random() is u/Den with
\* u in 0..Den-1, a float strategy is k/Den with k in 0..Den.
Den == 2

\* The most border positions a caller opens (an entrance and an exit).
MaxPunch == 2

\* The most remove_wall_between calls a caller makes itself.
MaxRemoves == 2

\* The number of states of the stand-in for the seeded random source.
RngMod == 5

\* The width of the one-row maze that is built besides the small rectangles.
LineLen == 4

WALL == 1
PASSAGE == 0

VARIABLES
    h, w,        \* self.h, self.w
    mask,        \* self.mask: [none |-> BOOLEAN, allowed |-> set of cells]
    grid,        \* self.grid
    cells,       \* self.cells
    pc,          \* "idle", "bt" (backtracker loop), "kr" (Kruskal loop), "solved"
    rng,         \* the shared random source: Unseeded or a state in 0..RngMod-1
    dirty,       \* remove_wall_between has been called on this Maze
    runFresh,    \* the current generation call began on the grid as constructed
    seeded,      \* the seed the current generation call was given (NoSeed if none)
    strategy, start, visited, stack,      \* locals of generate_recursive_backtracker
    pushes,      \* how often the current call appended each cell to stack
    edges, parent, ei,                    \* locals of generate_kruskal
    gens,        \* generation calls the caller made on this Maze
    punched,     \* border positions the caller opened (entrance, exit)
    removes,     \* remove_wall_between calls the caller made itself
    solved,      \* the last bfs_solve call: its arguments and what it returned
    first        \* the generation call whose result the caller kept, to repeat it

mazeConst == <<h, w, mask, cells>>
callVars == <<runFresh, seeded>>
btVars == <<strategy, start, visited, stack, pushes>>
krVars == <<edges, parent, ei>>
callerVars == <<gens, punched, removes, solved, first>>
vars == <<h, w, mask, grid, cells, pc, rng, dirty, runFresh, seeded, strategy,
          start, visited, stack, pushes, edges, parent, ei, gens, punched,
          removes, solved, first>>

\* ------------------------------------------------------- sequences, sets

Range(s) == {s[i] : i \in DOMAIN s}

\* pop() of the last entry, whatever the index
PopAt_last(s, idx) == SubSeq(s, 1, Len(s) - 1)

\* pop that leaves the list as it is
PopAt_keep(s, idx) == s

\* list.pop(idx), idx 0-based
PopAt(s, idx) == [i \in 1..(Len(s) - 1) |-> IF i <= idx THEN s[i] ELSE s[i + 1]]

\* ------------------------------------------------------------- the maze

\* range(self.h) x range(self.w) in the order of the comprehension
RECURSIVE RowMajor(_, _, _)
RowMajor(hh, ww, k) ==
    IF k >= hh * ww THEN <<>>
    ELSE <<(<<k \div ww, k % ww>>)>> \o RowMajor(hh, ww, k + 1)

\* (self.mask is None) or self.mask(r, c)
MaskAccepts(m, r, c) == m.none \/ <<r, c>> \in m.allowed

GridPos(hh, ww) == (0..(2 * hh)) \X (0..(2 * ww))

cell_to_grid(r, c) == <<r * 2 + 1, c * 2 + 1>>

\* The grid with every cell center opened, the mask not asked
InitGrid_allopen(hh, ww, m) ==
    [p \in GridPos(hh, ww) |->
        IF \E r \in 0..(hh - 1), c \in 0..(ww - 1) : p = <<r * 2 + 1, c * 2 + 1>>
        THEN PASSAGE ELSE WALL]

\* Maze.__init__: the grid of walls with the allowed cell centers opened
InitGrid(hh, ww, m) ==
    [p \in GridPos(hh, ww) |->
        IF \E r \in 0..(hh - 1), c \in 0..(ww - 1) :
               /\ MaskAccepts(m, r, c)
               /\ p = <<r * 2 + 1, c * 2 + 1>>
        THEN PASSAGE ELSE WALL]

\* Maze.__init__: self.cells
InitCells(hh, ww, m) ==
    SelectSeq(RowMajor(hh, ww, 0), LAMBDA x : MaskAccepts(m, x[1], x[2]))

\* in_bounds_cell that asks the mask only
in_bounds_cell_maskonly(r, c) == MaskAccepts(mask, r, c)

\* in_bounds_cell that does not ask the mask
in_bounds_cell_nomask(r, c) ==
    /\ 0 <= r /\ r < h
    /\ 0 <= c /\ c < w

in_bounds_cell(r, c) ==
    /\ 0 <= r /\ r < h
    /\ 0 <= c /\ c < w
    /\ MaskAccepts(mask, r, c)

\* The wall position remove_wall_between(a, b) opens
WallPos(a, b) ==
    LET ga == cell_to_grid(a[1], a[2])
        gb == cell_to_grid(b[1], b[2])
    IN  <<(ga[1] + gb[1]) \div 2, (ga[2] + gb[2]) \div 2>>

\* remove_wall_between that starts from the grid as constructed
remove_wall_between_reset(g, a, b) ==
    [InitGrid(h, w, mask) EXCEPT ![WallPos(a, b)] = PASSAGE]

\* remove_wall_between that flips the position
remove_wall_between_toggle(g, a, b) == [g EXCEPT ![WallPos(a, b)] = 1 - @]

remove_wall_between(g, a, b) == [g EXCEPT ![WallPos(a, b)] = PASSAGE]

\* ---------------------------------------------------- the random source

\* The module-level generator of Python's random, shared by every call.
\* Unseeded: its state is whatever earlier use left, so a draw may return any
\* value of its range.  After random.seed(s) the state is a function of s and
\* every draw is a function of the state; RngNext, RngSeed and the "% n" are a
\* small stand-in for the library's generator.
Unseeded == -1
NoSeed == -1
Seeds == 0..(RngMod - 1)

RngSeed(s) == s % RngMod

RngNext(s) == (3 * s + 1) % RngMod

\* random.randrange(n), and the index random.choice draws: the possible
\* [v |-> value, rng |-> state after the draw]
RandRange(s, n) ==
    IF s = Unseeded
    THEN {[v |-> k, rng |-> Unseeded] : k \in 0..(n - 1)}
    ELSE {[v |-> s % n, rng |-> RngNext(s)]}

\* random.random(), as a numerator over Den
RandFloat(s) ==
    IF s = Unseeded
    THEN {[v |-> u, rng |-> Unseeded] : u \in 0..(Den - 1)}
    ELSE {[v |-> s % Den, rng |-> RngNext(s)]}

\* a call that ignores its seed
Reseed_never(s, seed) == s

\* if seed is not None: random.seed(seed)
Reseed(s, seed) == IF seed # NoSeed THEN RngSeed(seed) ELSE s

\* ------------------------------------------------------------ start state

\* <<height, width>>: the rectangles up to MaxSide a side, and one row of
\* LineLen cells
Dims == ((0..MaxSide) \X (0..MaxSide)) \cup {<<1, LineLen>>}

\* The cells a mask is asked about: those in range, and one out of range (right
\* of the first row) that a predicate or a set may accept as well.
MaskDomain(hh, ww) ==
    ((0..(hh - 1)) \X (0..(ww - 1))) \cup {<<0, ww>>}

Masks(hh, ww) ==
    {[none |-> TRUE, allowed |-> {}]}
        \cup {[none |-> FALSE, allowed |-> a] : a \in SUBSET MaskDomain(hh, ww)}

NoStrategy == [kind |-> "none", name |-> "", p |-> 0]

\* strategy: a string (the three the code names and one it does not), or a float
Strategies ==
    {[kind |-> "str", name |-> n, p |-> 0] : n \in {"last", "random", "first", "spiral"}}
        \cup {[kind |-> "float", name |-> "", p |-> k] : k \in 0..Den}

NoCell == <<-9, -9>>

\* The entrance of the example: m.grid[0][1] = 0
EntrancePos == <<0, 1>>

\* No bfs_solve call has returned a value the caller still holds
NoSolve ==
    [called |-> FALSE, start |-> NoCell, goal |-> NoCell, found |-> FALSE,
     path |-> <<>>, pops |-> 0, seen |-> {}]

\* No generation call whose result the caller kept
NoFirst ==
    [set |-> FALSE, rebuilt |-> FALSE, gen |-> "", strategy |-> NoStrategy,
     seed |-> NoSeed, grid |-> <<>>]

BtIdle ==
    /\ strategy = NoStrategy
    /\ start = NoCell
    /\ visited = {}
    /\ stack = <<>>
    /\ pushes = <<>>

KrIdle ==
    /\ edges = <<>>
    /\ parent = <<>>
    /\ ei = 0

\* Maze(width, height, mask), the random source not yet seeded
Construct ==
    /\ \E d \in Dims :
         /\ h = d[1]
         /\ w = d[2]
         /\ \E m \in Masks(d[1], d[2]) :
              /\ mask = m
              /\ grid = InitGrid(d[1], d[2], m)
              /\ cells = InitCells(d[1], d[2], m)
    /\ pc = "idle"
    /\ rng = Unseeded
    /\ gens = 0
    /\ dirty = FALSE
    /\ punched = {}
    /\ runFresh = FALSE
    /\ seeded = NoSeed
    /\ BtIdle
    /\ KrIdle
    /\ removes = 0
    /\ solved = NoSolve

Init == Construct /\ first = NoFirst

\* ------------------------------------------ generate_recursive_backtracker

\* Neighbors without the test of the visited set
Neighbors_revisit(r, c, vis) ==
    SelectSeq(<<(<<r - 1, c>>), (<<r + 1, c>>), (<<r, c - 1>>), (<<r, c + 1>>)>>,
              LAMBDA n : in_bounds_cell(n[1], n[2]))

\* The unvisited allowed neighbours of (r, c), in the order of the code's loop
Neighbors(r, c, vis) ==
    SelectSeq(<<(<<r - 1, c>>), (<<r + 1, c>>), (<<r, c - 1>>), (<<r, c + 1>>)>>,
              LAMBDA n : in_bounds_cell(n[1], n[2]) /\ n \notin vis)

\* The index into the stack the strategy selects: the possible
\* [v |-> idx, rng |-> state after the draws]
SelectIndex(st, n, s) ==
    IF st.kind = "float"
    THEN UNION {IF f.v < st.p
                THEN {[v |-> n - 1, rng |-> f.rng]}
                ELSE RandRange(f.rng, n) : f \in RandFloat(s)}
    ELSE IF st.name = "last" THEN {[v |-> n - 1, rng |-> s]}
    ELSE IF st.name = "random" THEN RandRange(s, n)
    ELSE IF st.name = "first" THEN {[v |-> 0, rng |-> s]}
    ELSE {[v |-> n - 1, rng |-> s]}

\* The entry without the return on an empty cell list: random.choice of an
\* empty list has no value to give, and the call does not go on
GenerateBacktracker_nocheck(seed, st) ==
    /\ pc = "idle"
    /\ gens < MaxGens
    /\ removes = 0
    /\ punched \subseteq {EntrancePos}
    /\ gens' = gens + 1
    /\ \E d \in RandRange(Reseed(rng, seed), Len(cells)) :
         /\ rng' = d.rng
         /\ pc' = "bt"
         /\ runFresh' = ~dirty
         /\ seeded' = seed
         /\ strategy' = st
         /\ start' = cells[d.v + 1]
         /\ stack' = <<cells[d.v + 1]>>
         /\ visited' = {cells[d.v + 1]}
         /\ pushes' = (cells[d.v + 1] :> 1)
    /\ UNCHANGED <<mazeConst, grid, dirty, krVars, punched, removes, solved, first>>

\* generate_recursive_backtracker(seed, strategy), up to the loop: reseed,
\* return on an empty cell list, else pick the start cell
GenerateBacktracker(seed, st) ==
    /\ pc = "idle"
    /\ gens < MaxGens
    /\ removes = 0
    /\ punched \subseteq {EntrancePos}
    /\ gens' = gens + 1
    /\ IF cells = <<>>
       THEN /\ rng' = Reseed(rng, seed)
            /\ UNCHANGED <<pc, callVars, btVars>>
       ELSE \E d \in RandRange(Reseed(rng, seed), Len(cells)) :
              /\ rng' = d.rng
              /\ pc' = "bt"
              /\ runFresh' = ~dirty
              /\ seeded' = seed
              /\ strategy' = st
              /\ start' = cells[d.v + 1]
              /\ stack' = <<cells[d.v + 1]>>
              /\ visited' = {cells[d.v + 1]}
              /\ pushes' = (cells[d.v + 1] :> 1)
    /\ UNCHANGED <<mazeConst, grid, dirty, krVars, punched, removes, solved, first>>

\* One iteration of the while loop
BtStep ==
    /\ pc = "bt"
    /\ stack # <<>>
    /\ \E ic \in SelectIndex(strategy, Len(stack), rng) :
         LET idx == ic.v
             cell == stack[idx + 1]
             neighbors == Neighbors(cell[1], cell[2], visited)
         IN  IF neighbors # <<>>
             THEN \E nc \in RandRange(ic.rng, Len(neighbors)) :
                    LET nb == neighbors[nc.v + 1] IN
                    /\ grid' = remove_wall_between(grid, cell, nb)
                    /\ dirty' = TRUE
                    /\ visited' = visited \cup {nb}
                    /\ stack' = Append(stack, nb)
                    /\ pushes' = IF nb \in DOMAIN pushes
                                 THEN [pushes EXCEPT ![nb] = @ + 1]
                                 ELSE pushes @@ (nb :> 1)
                    /\ rng' = nc.rng
             ELSE /\ stack' = PopAt(stack, idx)
                  /\ rng' = ic.rng
                  /\ UNCHANGED <<grid, dirty, visited, pushes>>
    /\ UNCHANGED <<mazeConst, pc, callVars, strategy, start, krVars, callerVars>>

\* The loop ends on an empty stack and the call returns; its locals are gone
BtReturn ==
    /\ pc = "bt"
    /\ stack = <<>>
    /\ pc' = "idle"
    /\ strategy' = NoStrategy
    /\ start' = NoCell
    /\ visited' = {}
    /\ pushes' = <<>>
    /\ runFresh' = FALSE
    /\ seeded' = NoSeed
    /\ UNCHANGED <<mazeConst, grid, rng, dirty, stack, krVars, callerVars>>

\* --------------------------------------------------------- generate_kruskal

\* The double loop over all four directions
RECURSIVE BuildEdges_fourway(_, _)
BuildEdges_fourway(cs, k) ==
    IF k > Len(cs) THEN <<>>
    ELSE LET r == cs[k][1]
             c == cs[k][2]
         IN  SelectSeq(<<(<<cs[k], <<r, c + 1>>>>), (<<cs[k], <<r + 1, c>>>>),
                         (<<cs[k], <<r, c - 1>>>>), (<<cs[k], <<r - 1, c>>>>)>>,
                       LAMBDA e : in_bounds_cell(e[2][1], e[2][2]))
                 \o BuildEdges_fourway(cs, k + 1)

\* The double loop with the right neighbour only
RECURSIVE BuildEdges_right(_, _)
BuildEdges_right(cs, k) ==
    IF k > Len(cs) THEN <<>>
    ELSE LET r == cs[k][1]
             c == cs[k][2]
         IN  SelectSeq(<<(<<cs[k], <<r, c + 1>>>>)>>,
                       LAMBDA e : in_bounds_cell(e[2][1], e[2][2]))
                 \o BuildEdges_right(cs, k + 1)

\* The edges the double loop appends for the cells cs[k..]: right, then down
RECURSIVE BuildEdges(_, _)
BuildEdges(cs, k) ==
    IF k > Len(cs) THEN <<>>
    ELSE LET r == cs[k][1]
             c == cs[k][2]
         IN  SelectSeq(<<(<<cs[k], <<r, c + 1>>>>), (<<cs[k], <<r + 1, c>>>>)>>,
                       LAMBDA e : in_bounds_cell(e[2][1], e[2][2]))
                 \o BuildEdges(cs, k + 1)

\* x[i], x[j] = x[j], x[i], 0-based
Swap(x, i, j) == [x EXCEPT ![i + 1] = x[j + 1], ![j + 1] = x[i + 1]]

\* random.shuffle(x) from index i down: for i in reversed(range(1, len(x))):
\* j = randbelow(i + 1); swap.  The possible [v |-> list, rng |-> state]
RECURSIVE ShuffleFrom(_, _, _)
ShuffleFrom(x, i, s) ==
    IF i < 1 THEN {[v |-> x, rng |-> s]}
    ELSE UNION {ShuffleFrom(Swap(x, i, d.v), i - 1, d.rng) : d \in RandRange(s, i + 1)}

Shuffle(x, s) == ShuffleFrom(x, Len(x) - 1, s)

\* find that takes every cell for its own root
find_self(p, u) == [p |-> p, r |-> u]

\* find that makes every cell on the path its own parent
RECURSIVE find_detach(_, _)
find_detach(p, u) ==
    IF p[u] # u
    THEN LET sub == find_detach(p, p[u])
         IN  [p |-> [sub.p EXCEPT ![u] = u], r |-> sub.r]
    ELSE [p |-> p, r |-> u]

\* find(u) with its path compression: [p |-> parent afterwards, r |-> the root]
RECURSIVE find(_, _)
find(p, u) ==
    IF p[u] # u
    THEN LET sub == find(p, p[u])
         IN  [p |-> [sub.p EXCEPT ![u] = sub.r], r |-> sub.r]
    ELSE [p |-> p, r |-> u]

\* union with the test of the roots lost: it always merges and reports TRUE
union_always(p, a, b) ==
    LET fa == find(p, a)
        fb == find(fa.p, b)
    IN  [p |-> [fb.p EXCEPT ![fb.r] = fa.r], ok |-> TRUE]

\* union that never merges
union_never(p, a, b) == [p |-> p, ok |-> FALSE]

\* union(a, b): [p |-> parent afterwards, ok |-> the value returned]
union(p, a, b) ==
    LET fa == find(p, a)
        fb == find(fa.p, b)
    IN  IF fa.r = fb.r
        THEN [p |-> fb.p, ok |-> FALSE]
        ELSE [p |-> [fb.p EXCEPT ![fb.r] = fa.r], ok |-> TRUE]

\* generate_kruskal(seed), up to the edge loop: reseed, build and shuffle the
\* edges, make every cell its own parent
GenerateKruskal(seed) ==
    /\ pc = "idle"
    /\ gens < MaxGens
    /\ removes = 0
    /\ punched \subseteq {EntrancePos}
    /\ gens' = gens + 1
    /\ \E sh \in Shuffle(BuildEdges(cells, 1), Reseed(rng, seed)) :
         /\ edges' = sh.v
         /\ rng' = sh.rng
    /\ parent' = [x \in Range(cells) |-> x]
    /\ ei' = 1
    /\ pc' = "kr"
    /\ runFresh' = ~dirty
    /\ seeded' = seed
    /\ UNCHANGED <<mazeConst, grid, dirty, btVars, punched, removes, solved, first>>

\* One iteration of the loop over the shuffled edges
KrStep ==
    /\ pc = "kr"
    /\ ei <= Len(edges)
    /\ LET a == edges[ei][1]
           b == edges[ei][2]
           u == union(parent, a, b)
       IN  /\ parent' = u.p
           /\ IF u.ok
              THEN /\ grid' = remove_wall_between(grid, a, b)
                   /\ dirty' = TRUE
              ELSE UNCHANGED <<grid, dirty>>
    /\ ei' = ei + 1
    /\ UNCHANGED <<mazeConst, pc, rng, callVars, edges, btVars, callerVars>>

\* The loop is over and the call returns; its locals are gone
KrReturn ==
    /\ pc = "kr"
    /\ ei > Len(edges)
    /\ pc' = "idle"
    /\ edges' = <<>>
    /\ parent' = <<>>
    /\ ei' = 0
    /\ runFresh' = FALSE
    /\ seeded' = NoSeed
    /\ UNCHANGED <<mazeConst, grid, rng, dirty, btVars, callerVars>>

\* ---------------------------------------------------------------- bfs_solve

\* 0 <= p[0] < H and 0 <= p[1] < W
InGrid(p, H, W) == 0 <= p[1] /\ p[1] < H /\ 0 <= p[2] /\ p[2] < W

\* The positions above and below only, each looked at twice
Around_vertical(p) ==
    <<(<<p[1] - 1, p[2]>>), (<<p[1] + 1, p[2]>>), (<<p[1] - 1, p[2]>>), (<<p[1] + 1, p[2]>>)>>

\* The four positions the inner loop looks at, in its order
Around(p) ==
    <<(<<p[1] - 1, p[2]>>), (<<p[1] + 1, p[2]>>), (<<p[1], p[2] - 1>>), (<<p[1], p[2] + 1>>)>>

\* The inner for loop with the queue used as a stack: appendleft for append
RECURSIVE Expand_front(_, _, _, _, _, _, _)
Expand_front(g, H, W, cur, k, q, par) ==
    IF k > 4 THEN [q |-> q, par |-> par, g |-> g]
    ELSE LET n == Around(cur)[k]
         IN  IF InGrid(n, H, W) /\ g[n] = 0 /\ n \notin DOMAIN par
             THEN Expand_front(g, H, W, cur, k + 1, <<n>> \o q, par @@ (n :> cur))
             ELSE Expand_front(g, H, W, cur, k + 1, q, par)

\* The inner for loop that marks the start position a wall in self.grid once it
\* has looked around it
RECURSIVE Expand_mark(_, _, _, _, _, _, _)
Expand_mark(g, H, W, cur, k, q, par) ==
    IF k > 4
    THEN [q |-> q, par |-> par,
          g |-> IF par[cur] = NoCell THEN [g EXCEPT ![cur] = WALL] ELSE g]
    ELSE LET n == Around(cur)[k]
         IN  IF InGrid(n, H, W) /\ g[n] = 0 /\ n \notin DOMAIN par
             THEN Expand_mark(g, H, W, cur, k + 1, Append(q, n), par @@ (n :> cur))
             ELSE Expand_mark(g, H, W, cur, k + 1, q, par)

\* The inner for loop from its k-th direction on: every open position in the
\* grid not yet in parent gets cur as its parent and is appended to the queue;
\* g is self.grid, which the loop reads and hands on
RECURSIVE Expand(_, _, _, _, _, _, _)
Expand(g, H, W, cur, k, q, par) ==
    IF k > 4 THEN [q |-> q, par |-> par, g |-> g]
    ELSE LET n == Around(cur)[k]
         IN  IF InGrid(n, H, W) /\ g[n] = 0 /\ n \notin DOMAIN par
             THEN Expand(g, H, W, cur, k + 1, Append(q, n), par @@ (n :> cur))
             ELSE Expand(g, H, W, cur, k + 1, q, par)

\* path.append(cur) while cur is not None, then path.reverse()
RECURSIVE PathTo(_, _)
PathTo(par, cur) ==
    IF cur = NoCell THEN <<>> ELSE Append(PathTo(par, par[cur]), cur)

\* The while loop: pops counts the popleft calls, grid is self.grid at the return
RECURSIVE BfsLoop(_, _, _, _, _, _, _)
BfsLoop(g, H, W, goal, q, par, pops) ==
    IF q = <<>>
    THEN [found |-> FALSE, path |-> <<>>, pops |-> pops, seen |-> DOMAIN par,
          grid |-> g]
    ELSE LET cur == Head(q)
         IN  IF cur = goal
             THEN [found |-> TRUE, path |-> PathTo(par, cur), pops |-> pops + 1,
                   seen |-> DOMAIN par, grid |-> g]
             ELSE LET e == Expand(g, H, W, cur, 1, Tail(q), par)
                  IN  BfsLoop(e.g, H, W, goal, e.q, e.par, pops + 1)

\* The None a failed validation returns: nothing searched, self.grid as it was
Rejected(g) == [found |-> FALSE, path |-> <<>>, pops |-> 0, seen |-> {}, grid |-> g]

\* bfs_solve without the test of the goal's value
bfs_solve_nogoalcheck(g, H, W, s, t) ==
    IF ~InGrid(s, H, W) THEN Rejected(g)
    ELSE IF ~InGrid(t, H, W) THEN Rejected(g)
    ELSE IF g[s] # 0 THEN Rejected(g)
    ELSE BfsLoop(g, H, W, t, <<s>>, (s :> NoCell), 0)

\* bfs_solve(start_grid, goal_grid) on grid g of H rows and W columns;
\* found = FALSE is the None result
bfs_solve(g, H, W, s, t) ==
    IF ~InGrid(s, H, W) THEN Rejected(g)
    ELSE IF ~InGrid(t, H, W) THEN Rejected(g)
    ELSE IF g[s] # 0 THEN Rejected(g)
    ELSE IF g[t] # 0 THEN Rejected(g)
    ELSE BfsLoop(g, H, W, t, <<s>>, (s :> NoCell), 0)

\* ------------------------------------------------------------- the caller

grid_h == 2 * h + 1
grid_w == 2 * w + 1

Border == {p \in GridPos(h, w) : p[1] \in {0, 2 * h} \/ p[2] \in {0, 2 * w}}

\* The cell centres and the positions between two of them
Inner == {p \in GridPos(h, w) \ Border : p[1] % 2 = 1 \/ p[2] % 2 = 1}

\* Grid coordinates a caller passes to bfs_solve on a maze it has not opened:
\* the inner positions, a corner and the entrance position of the border, and
\* one position outside the grid on each side
Coords ==
    Inner \cup ({<<0, 0>>, EntrancePos} \cap GridPos(h, w))
          \cup {<<-1, 1>>, <<1, -1>>, <<grid_h, 1>>, <<1, grid_w>>}

Adjacent(a, b) ==
    \/ a[1] = b[1] /\ (a[2] - b[2] = 1 \/ b[2] - a[2] = 1)
    \/ a[2] = b[2] /\ (a[1] - b[1] = 1 \/ b[1] - a[1] = 1)

\* The caller opens the example's entrance, on a maze of any age
OpenEntrance ==
    /\ pc = "idle"
    /\ punched = {}
    /\ removes = 0
    /\ EntrancePos \in Border
    /\ grid' = [grid EXCEPT ![EntrancePos] = PASSAGE]
    /\ punched' = {EntrancePos}
    /\ UNCHANGED <<mazeConst, pc, rng, dirty, callVars, btVars, krVars, gens,
                   removes, solved, first>>

\* The caller opens a border position of a generated maze: m.grid[r][c] = 0
OpenBorder(p) ==
    /\ pc = "idle"
    /\ gens >= 1
    /\ Cardinality(punched) < MaxPunch
    /\ p \in Border \ punched
    /\ grid' = [grid EXCEPT ![p] = PASSAGE]
    /\ punched' = punched \cup {p}
    /\ UNCHANGED <<mazeConst, pc, rng, dirty, callVars, btVars, krVars, gens,
                   removes, solved, first>>

\* The caller removes the wall between two adjacent allowed cells itself
RemoveWall(a, b) ==
    /\ pc = "idle"
    /\ gens = 0
    /\ punched = {}
    /\ removes < MaxRemoves
    /\ in_bounds_cell(a[1], a[2])
    /\ in_bounds_cell(b[1], b[2])
    /\ Adjacent(a, b)
    /\ grid' = remove_wall_between(grid, a, b)
    /\ dirty' = TRUE
    /\ removes' = removes + 1
    /\ UNCHANGED <<mazeConst, pc, rng, callVars, btVars, krVars, gens, punched,
                   solved, first>>

\* The caller solves and holds the value returned
Solve(s, t) ==
    /\ pc = "idle"
    /\ LET r == bfs_solve(grid, grid_h, grid_w, s, t)
       IN  /\ solved' = [called |-> TRUE, start |-> s, goal |-> t, found |-> r.found,
                          path |-> r.path, pops |-> r.pops, seen |-> r.seen]
           /\ grid' = r.grid
    /\ pc' = "solved"
    /\ UNCHANGED <<mazeConst, rng, dirty, callVars, btVars, krVars, gens,
                   punched, removes, first>>

\* The caller drops the value
SolveReturn ==
    /\ pc = "solved"
    /\ pc' = "idle"
    /\ solved' = NoSolve
    /\ UNCHANGED <<mazeConst, grid, rng, dirty, callVars, btVars, krVars, gens,
                   punched, removes, first>>

\* A caller that passes no seed: it generates (at most MaxGens times, with at
\* most the entrance open), or removes walls itself, opens border positions of
\* a generated maze, and solves
Next ==
    \/ \E st \in Strategies : GenerateBacktracker(NoSeed, st)
    \/ BtStep
    \/ BtReturn
    \/ GenerateKruskal(NoSeed)
    \/ KrStep
    \/ KrReturn
    \/ OpenEntrance
    \/ \E p \in Border : OpenBorder(p)
    \/ \E a, b \in Range(cells) : RemoveWall(a, b)
    \/ \E s, t \in Coords : punched = {} /\ Solve(s, t)
    \/ \E s, t \in punched : Solve(s, t)
    \/ SolveReturn

Spec == Init /\ [][Next]_vars

\* A caller that generates only: the calls and loops of the two generators
GenNext ==
    \/ \E st \in Strategies : GenerateBacktracker(NoSeed, st)
    \/ BtStep
    \/ BtReturn
    \/ GenerateKruskal(NoSeed)
    \/ KrStep
    \/ KrReturn

\* The same caller, its calls free to stop anywhere
GenSpec == Init /\ [][GenNext]_vars

\* The loop of the backtracker runs on while it can: nothing suspends a call
FairSpec == Init /\ [][GenNext]_vars /\ WF_vars(BtStep)

\* The calls a caller may repeat: a generator, its strategy and a seed
Plans ==
    {[set |-> TRUE, rebuilt |-> FALSE, gen |-> "bt", strategy |-> st, seed |-> sd,
      grid |-> <<>>] : st \in Strategies, sd \in Seeds}
        \cup {[set |-> TRUE, rebuilt |-> FALSE, gen |-> "kr", strategy |-> NoStrategy,
                seed |-> sd, grid |-> <<>>] : sd \in Seeds}

\* A caller that has fixed the generation call it is going to make
SeedInit == Construct /\ first \in Plans

\* The caller keeps the grid of the finished run and constructs a Maze of the
\* same dimensions and mask again; the random source is the module's, not the
\* object's, and stays as the run left it
Rebuild ==
    /\ pc = "idle"
    /\ gens = 1
    /\ ~first.rebuilt
    /\ first' = [first EXCEPT !.rebuilt = TRUE, !.grid = grid]
    /\ grid' = InitGrid(h, w, mask)
    /\ dirty' = FALSE
    /\ gens' = 0
    /\ UNCHANGED <<mazeConst, pc, rng, callVars, btVars, krVars, punched, removes,
                   solved>>

\* Other code draws from, or seeds, the shared random source between two calls
OtherDraws ==
    /\ pc = "idle"
    /\ gens = 0
    /\ \E s \in (Seeds \cup {Unseeded}) \ {rng} : rng' = s
    /\ UNCHANGED <<mazeConst, grid, pc, dirty, callVars, btVars, krVars, callerVars>>

\* A caller that makes the same seeded generation call on two Mazes constructed
\* alike
SeedNext ==
    \/ first.gen = "bt" /\ gens = 0 /\ GenerateBacktracker(first.seed, first.strategy)
    \/ BtStep
    \/ BtReturn
    \/ first.gen = "kr" /\ gens = 0 /\ GenerateKruskal(first.seed)
    \/ KrStep
    \/ KrReturn
    \/ Rebuild
    \/ OtherDraws

SeedSpec == SeedInit /\ [][SeedNext]_vars

\* ------------------------------------------------- the graph of the cells

Allowed == Range(cells)

\* The grid position between the centres of two adjacent cells
MidPoint(a, b) == <<a[1] + b[1] + 1, a[2] + b[2] + 1>>

\* The pairs of adjacent allowed cells
AdjacentPairs ==
    {e \in SUBSET Allowed :
        \E a, b \in e : e = {a, b} /\ a # b /\ Adjacent(a, b)}

\* Those with a passage between them
PassageEdges ==
    {e \in AdjacentPairs : \E a, b \in e : a # b /\ grid[MidPoint(a, b)] = PASSAGE}

\* The cells linked to a cell of S by edges of E
RECURSIVE Closure(_, _)
Closure(S, E) ==
    LET T == S \cup {c \in Allowed : \E e \in E : c \in e /\ e \cap S # {}}
    IN  IF T = S THEN S ELSE Closure(T, E)

ConnectedBy(E) == \A a, b \in Allowed : b \in Closure({a}, E)

\* No edge closes a cycle: without it, its two cells are apart
Acyclic(E) ==
    \A e \in E : \A a, b \in e : a # b => b \notin Closure({a}, E \ {e})

SpanningTree ==
    /\ ConnectedBy(PassageEdges)
    /\ Cardinality(PassageEdges) = Cardinality(Allowed) - 1
    /\ Acyclic(PassageEdges)

\* The allowed cells are not empty and all linked through adjacent allowed cells
CellsConnected == Allowed # {} /\ ConnectedBy(AdjacentPairs)

\* ------------------------------------------------ the graph of the wall grid

\* The grid positions that are passages
OpenPos == {p \in DOMAIN grid : grid[p] = PASSAGE}

\* The open positions within one move of a position of S, and S
Grow(S) == S \cup {p \in OpenPos : \E q \in S : Adjacent(p, q)}

\* The least number of moves from the positions S to t over open positions,
\* counted from k; -1 when there is no way
RECURSIVE Dist(_, _, _)
Dist(S, t, k) ==
    IF t \in S THEN k
    ELSE IF Grow(S) = S THEN -1
    ELSE Dist(Grow(S), t, k + 1)

\* A sequence of open, pairwise 4-adjacent grid positions from s to t
IsPath(path, s, t) ==
    /\ Len(path) >= 1
    /\ path[1] = s
    /\ path[Len(path)] = t
    /\ \A i \in 1..Len(path) : path[i] \in OpenPos
    /\ \A i \in 1..(Len(path) - 1) : Adjacent(path[i], path[i + 1])

\* The border position p lies next to the centre of an allowed cell
AtAllowedCell(p) == \E c \in Allowed : Adjacent(p, cell_to_grid(c[1], c[2]))

\* bfs_solve has just returned for a caller that opened two border positions
\* of a generated maze with connected cells, and asked for the way between them
SolvedBetweenOpenings ==
    /\ solved.called
    /\ gens >= 1
    /\ CellsConnected
    /\ Cardinality(punched) = 2
    /\ {solved.start, solved.goal} = punched

\* The wall positions between two cell centres: inside the border, one
\* coordinate odd and one even
Midpoints == {p \in GridPos(h, w) \ Border : p[1] % 2 # p[2] % 2}

\* The lists s and t hold the same elements, each as often in one as in the other
IsPermutation(s, t) ==
    /\ Len(s) = Len(t)
    /\ \A x \in Range(s) \cup Range(t) :
          Cardinality({i \in DOMAIN s : s[i] = x}) = Cardinality({i \in DOMAIN t : t[i] = x})

\* The cell the parent pointers lead to from u
RECURSIVE Root(_, _)
Root(p, u) == IF p[u] = u THEN u ELSE Root(p, p[u])

\* The allowed cell c has an allowed 4-neighbour that is not visited
HasUnvisitedNeighbour(c) == \E n \in Allowed \ visited : Adjacent(c, n)

\* The groups of allowed cells linked through 4-adjacent allowed cells
Groups == {Closure({c}, AdjacentPairs) : c \in Allowed}

\* The walls on the four sides of the cell c all stand
WalledIn(c) ==
    LET ctr == cell_to_grid(c[1], c[2])
    IN  \A i \in 1..4 : grid[Around(ctr)[i]] = WALL

\* The arguments of the bfs_solve call that has just returned fail its validation
BadEndpoint ==
    \/ solved.start \notin GridPos(h, w)
    \/ solved.goal \notin GridPos(h, w)
    \/ grid[solved.start] = WALL
    \/ grid[solved.goal] = WALL

\* A step of a generator: the call, an iteration of its loop, or its return
GeneratorStep == pc \in {"bt", "kr"} \/ pc' \in {"bt", "kr"}

\* A generation call is at its end: its loop is over, it has not yet returned
BtEnded == pc = "bt" /\ stack = <<>>
KrEnded == pc = "kr" /\ ei > Len(edges)
RunEnded == BtEnded \/ KrEnded

\* ------------------------------------------------------------------ claims

\* C1, as stated: for every mask, when either generator finishes on a freshly
\* constructed Maze the passages between allowed cells form a spanning tree:
\* connected, |allowed cells| - 1 edges, no cycle.  (Stated for the masks that
\* allow a cell at all, where |allowed cells| - 1 is a number of edges.)
C1_AnyMask == (RunEnded /\ runFresh /\ Allowed # {}) => SpanningTree

\* C1, amended: when the allowed cells are not empty and all linked through
\* chains of 4-adjacent allowed cells, either generator finishing on a freshly
\* constructed Maze leaves a spanning tree of the allowed cells.
C1_SpanningTree == (RunEnded /\ runFresh /\ CellsConnected) => SpanningTree

C1_Witness ==
    /\ BtEnded
    /\ runFresh
    /\ CellsConnected
    /\ Cardinality(Allowed) = 4
    /\ strategy.kind = "float"
    /\ strategy.p = 1

\* C2: in generate_recursive_backtracker every carve adds exactly one cell, not
\* visited before, to the visited set and appends it to the frontier; every
\* visited cell was appended exactly once; and when the loop is over the visited
\* cells are exactly the allowed cells linked to the start cell through
\* 4-adjacent allowed cells.
C2_VisitedOnce ==
    /\ [](pc = "bt" =>
            /\ DOMAIN pushes = visited
            /\ \A c \in visited : pushes[c] = 1)
    /\ [](BtEnded => visited = Closure({start}, AdjacentPairs))
    /\ [][(pc = "bt" /\ Len(stack') > Len(stack)) =>
            \E nb \in Allowed \ visited :
                /\ visited' = visited \cup {nb}
                /\ stack' = Append(stack, nb)]_vars

C2_Witness ==
    /\ BtEnded
    /\ Cardinality(visited) = 2
    /\ Cardinality(Allowed) = 3
    /\ Cardinality(PassageEdges) = 1
    /\ strategy.name = "random"

\* C3: generate_recursive_backtracker terminates: once in its loop, the frontier
\* becomes empty; and every iteration either marks one more cell visited
\* (appending it) or removes one frontier entry.
C3_Terminates ==
    /\ (pc = "bt") ~> (stack = <<>>)
    /\ [][(pc = "bt" /\ pc' = "bt") =>
            \/ /\ Cardinality(visited') = Cardinality(visited) + 1
               /\ Len(stack') = Len(stack) + 1
            \/ /\ visited' = visited
               /\ Len(stack') = Len(stack) - 1]_vars

C3_Witness ==
    /\ BtEnded
    /\ gens = 2
    /\ Cardinality(visited) = 4
    /\ strategy.name = "first"

\* C4: when start and goal are open positions of the grid and the goal can be
\* reached, bfs_solve returns a sequence that begins with start, ends with goal,
\* moves between 4-adjacent positions, holds open positions only and is as short
\* as any such sequence; for start = goal it is the one-element sequence.
C4_ShortestPath ==
    (/\ solved.called
     /\ solved.start \in OpenPos
     /\ solved.goal \in OpenPos
     /\ Dist({solved.start}, solved.goal, 0) >= 0)
    => /\ solved.found
       /\ IsPath(solved.path, solved.start, solved.goal)
       /\ Len(solved.path) = Dist({solved.start}, solved.goal, 0) + 1
       /\ solved.start = solved.goal => solved.path = <<solved.start>>

C4_Witness ==
    /\ solved.found
    /\ Cardinality(PassageEdges) = 4
    /\ Cardinality(Allowed) = 4
    /\ Len(solved.path) = 3

\* C5, as stated: on a generated maze with connected cells, bfs_solve between
\* two opened border positions returns a non-empty path, whichever two border
\* positions were opened.
C5_AnyBorder ==
    SolvedBetweenOpenings => solved.found /\ Len(solved.path) >= 1

\* C5, amended: on a generated maze with connected cells, bfs_solve between two
\* opened border positions that each lie next to the centre of an allowed cell
\* returns a non-empty path.
C5_PathBetweenOpenings ==
    (SolvedBetweenOpenings /\ \A p \in punched : AtAllowedCell(p))
    => solved.found /\ Len(solved.path) >= 1

C5_Witness ==
    /\ SolvedBetweenOpenings
    /\ \A p \in punched : AtAllowedCell(p)
    /\ ~mask.none
    /\ Cardinality(Allowed) = 3
    /\ solved.found
    /\ Len(solved.path) = 7

\* C6: bfs_solve returns the not-found result when start or goal is outside the
\* grid (negative coordinates included) or is a wall; it then performs no search
\* step, and the call leaves the wall grid as it was.
C6_Rejects ==
    /\ []((solved.called /\ BadEndpoint) =>
             /\ ~solved.found
             /\ solved.pops = 0
             /\ solved.seen = {})
    /\ [][pc' = "solved" => grid' = grid]_vars

C6_Witness ==
    /\ solved.called
    /\ solved.start \in OpenPos
    /\ solved.goal \in GridPos(h, w)
    /\ grid[solved.goal] = WALL
    /\ ~solved.found

\* C7: a step of either generator changes no position of the wall grid but the
\* midpoint between two 4-adjacent cells that are both allowed; border rows and
\* columns, (even, even) corners and cell centres keep their value.
C7_OnlyMidpoints ==
    [][GeneratorStep =>
         \A p \in DOMAIN grid :
            /\ grid'[p] # grid[p] =>
                  \E a, b \in Allowed : Adjacent(a, b) /\ p = MidPoint(a, b)
            /\ (p \in Border \/ p[1] % 2 = p[2] % 2) => grid'[p] = grid[p]]_vars

C7_Witness ==
    /\ pc \in {"bt", "kr"}
    /\ ~mask.none
    /\ Len(cells) < h * w
    /\ Cardinality(PassageEdges) = 2
    /\ punched = {EntrancePos}

\* C8: no step of a generator, in the first or a later generation call on the
\* same Maze, turns a passage (an opened entrance included) back into a wall.
C8_Monotonic ==
    [][GeneratorStep =>
         \A p \in DOMAIN grid : grid[p] = PASSAGE => grid'[p] = PASSAGE]_vars

C8_Witness ==
    /\ pc = "bt"
    /\ gens = 2
    /\ punched = {EntrancePos}
    /\ Cardinality(PassageEdges) = 4
    /\ stack # <<>>

\* C9: two runs of the same generator with the same strategy and the same seed,
\* on two Mazes constructed with the same dimensions and mask, end with the same
\* wall grid, whatever state the random source was in before each run.
C9_Deterministic ==
    (first.rebuilt /\ gens = 1 /\ pc = "idle") => grid = first.grid

C9_Witness ==
    /\ first.rebuilt
    /\ gens = 1
    /\ pc = "idle"
    /\ first.gen = "bt"
    /\ first.strategy.name = "random"
    /\ Cardinality(PassageEdges) = 3
    /\ grid = first.grid

\* C10: for every two 4-adjacent allowed cells and every grid,
\* remove_wall_between applied twice gives the grid it gives applied once, and
\* applied once it makes the midpoint between the two centres a passage and
\* changes no other position.
C10_Idempotent ==
    \A a, b \in Allowed :
        Adjacent(a, b) =>
            LET once == remove_wall_between(grid, a, b)
            IN  /\ remove_wall_between(once, a, b) = once
                /\ DOMAIN once = DOMAIN grid
                /\ once[MidPoint(a, b)] = PASSAGE
                /\ \A p \in DOMAIN grid \ {MidPoint(a, b)} : once[p] = grid[p]

C10_Witness ==
    /\ removes = 2
    /\ Cardinality(PassageEdges) = 1
    /\ Cardinality(Allowed) = 4

\* C11: on an unmasked grid of w x h cells, w and h at least 1, when either
\* generator has run once on a fresh Maze exactly w * h - 1 midpoints between
\* cell centres are passages.
C11_PassageCount ==
    (RunEnded /\ runFresh /\ mask.none /\ h >= 1 /\ w >= 1)
    => Cardinality(Midpoints \cap OpenPos) = w * h - 1

C11_Witness ==
    /\ KrEnded
    /\ runFresh
    /\ mask.none
    /\ h = 2
    /\ w = 2
    /\ Cardinality(Midpoints \cap OpenPos) = 3

\* C12: when no cell is allowed (the mask rejects every cell, or the width or the
\* height is zero) a call of either generator can be made and comes to its
\* return without entering a loop iteration, and the wall grid stays as
\* constructed.
C12_EmptyNoOp ==
    Allowed = {} =>
        /\ grid = InitGrid(h, w, mask)
        /\ pc # "bt"
        /\ pc = "kr" => (edges = <<>> /\ ENABLED KrReturn)
        /\ (pc = "idle" /\ gens < MaxGens) =>
              /\ \A st \in Strategies : ENABLED GenerateBacktracker(NoSeed, st)
              /\ ENABLED GenerateKruskal(NoSeed)

C12_Witness ==
    /\ Allowed = {}
    /\ h = 2
    /\ w = 2
    /\ gens = 2
    /\ pc = "kr"

\* C13: right after Maze(width, height, mask) the wall grid has 2h+1 rows and
\* 2w+1 columns; a position is a passage exactly when it is the centre
\* (2r+1, 2c+1) of a cell (r, c) in range that the mask accepts, and is a wall
\* otherwise; the cell list holds exactly the in-range cells the mask accepts,
\* each once.
C13_Constructed ==
    (gens = 0 /\ removes = 0 /\ punched = {}) =>
        /\ DOMAIN grid = (0..(2 * h)) \X (0..(2 * w))
        /\ \A p \in DOMAIN grid :
              grid[p] = (IF /\ p[1] % 2 = 1
                            /\ p[2] % 2 = 1
                            /\ (mask.none \/
                                  <<(p[1] - 1) \div 2, (p[2] - 1) \div 2>> \in mask.allowed)
                         THEN PASSAGE ELSE WALL)
        /\ Range(cells) = {x \in (0..(h - 1)) \X (0..(w - 1)) :
                              mask.none \/ x \in mask.allowed}
        /\ Len(cells) = Cardinality(Range(cells))
        /\ \A x \in Range(cells) : grid[cell_to_grid(x[1], x[2])] = PASSAGE

C13_Witness ==
    /\ gens = 0
    /\ removes = 0
    /\ punched = {}
    /\ h = 2
    /\ w = 2
    /\ mask.allowed = {<<0, 0>>, <<1, 1>>, <<0, 2>>}
    /\ Len(cells) = 2
    /\ grid[<<1, 3>>] = WALL

\* C14: bfs_solve leaves the wall grid as it found it, whatever start and goal
\* it is given: outside the grid, a wall, reachable or not.
C14_SolveKeepsGrid ==
    [][(pc = "idle" /\ solved'.called) => grid' = grid]_vars

C14_Witness ==
    /\ solved.called
    /\ solved.start \in OpenPos
    /\ solved.goal \in OpenPos
    /\ ~solved.found
    /\ solved.pops >= 3
    /\ Cardinality(punched) = 2

\* C15: in_bounds_cell(r, c) is true exactly when 0 <= r < h, 0 <= c < w and the
\* mask accepts (r, c): false out of range even where the mask accepts, false in
\* range where the mask rejects; so it is true exactly of the cells of the list.
C15_InBoundsAllowed ==
    \A r \in (-1)..h, c \in (-1)..w :
        /\ in_bounds_cell(r, c) <=>
              (r \in 0..(h - 1) /\ c \in 0..(w - 1) /\
               (mask.none \/ <<r, c>> \in mask.allowed))
        /\ in_bounds_cell(r, c) <=> <<r, c>> \in Range(cells)
        /\ (r < 0 \/ r >= h \/ c < 0 \/ c >= w) => ~in_bounds_cell(r, c)

C15_Witness ==
    /\ pc = "kr"
    /\ h = 1
    /\ w = 2
    /\ mask.allowed = {<<0, 0>>, <<0, 1>>, <<0, 2>>}
    /\ ~in_bounds_cell(0, 2)
    /\ Len(edges) = 1

\* C16: for start and goal both open positions of the grid, bfs_solve returns
\* not-found exactly when no chain of 4-adjacent open positions links them; a
\* not-found search has taken each position linked to start from the queue
\* once, and no search takes more positions from the queue than it has put in,
\* each put in once.
C16_NotFoundIffUnreachable ==
    (solved.called /\ solved.start \in OpenPos /\ solved.goal \in OpenPos) =>
        LET linked == Dist({solved.start}, solved.goal, 0) >= 0
            reach == {p \in OpenPos : Dist({solved.start}, p, 0) >= 0}
        IN  /\ solved.found <=> linked
            /\ ~linked => solved.path = <<>>
            /\ solved.seen \subseteq reach
            /\ solved.pops <= Cardinality(solved.seen)
            /\ ~solved.found => (solved.seen = reach /\ solved.pops = Cardinality(reach))

C16_Witness ==
    /\ solved.called
    /\ solved.start \in OpenPos
    /\ solved.goal \in OpenPos
    /\ ~solved.found
    /\ solved.pops = 3
    /\ punched = {}
    /\ gens = 1

\* C17: the edge list of generate_kruskal holds every unordered pair of
\* 4-adjacent allowed cells exactly once, as a cell and its right or its down
\* neighbour; no edge has an endpoint that is disallowed or out of range; and the
\* shuffled list is a permutation of the list as built.
C17_EdgeList ==
    pc = "kr" =>
        /\ {{e[1], e[2]} : e \in Range(edges)} = AdjacentPairs
        /\ Len(edges) = Cardinality(AdjacentPairs)
        /\ \A e \in Range(edges) :
              /\ e[1] \in Allowed
              /\ e[2] \in Allowed
              /\ \/ e[2] = <<e[1][1], e[1][2] + 1>>
                 \/ e[2] = <<e[1][1] + 1, e[1][2]>>
        /\ IsPermutation(edges, BuildEdges(cells, 1))

C17_Witness ==
    /\ pc = "kr"
    /\ Len(edges) = 4
    /\ edges # BuildEdges(cells, 1)
    /\ <<0, 2>> \in mask.allowed

\* C18: throughout the edge loop of generate_kruskal on a fresh Maze two allowed
\* cells have the same union-find root exactly when passages carved so far link
\* them; find returns that root and its path compression moves no cell to
\* another root; an edge is carved exactly when the roots of its two cells
\* differ, and then the two cells were not linked before.
C18_UnionFind ==
    /\ []((pc = "kr" /\ runFresh) =>
             \A a, b \in Allowed :
                /\ (Root(parent, a) = Root(parent, b)) <=>
                       b \in Closure({a}, PassageEdges)
                /\ find(parent, a).r = Root(parent, a)
                /\ Root(find(parent, a).p, b) = Root(parent, b))
    /\ [][(pc = "kr" /\ runFresh /\ ei' = ei + 1) =>
             LET a == edges[ei][1]
                 b == edges[ei][2]
             IN  /\ (grid' # grid) <=> (Root(parent, a) # Root(parent, b))
                 /\ (grid' # grid) => b \notin Closure({a}, PassageEdges)
                 /\ (grid' = grid) =>
                       \A x, y \in Allowed :
                          (Root(parent', x) = Root(parent', y)) <=>
                             (Root(parent, x) = Root(parent, y))]_vars

C18_Witness ==
    /\ pc = "kr"
    /\ runFresh
    /\ ei = 5
    /\ Cardinality(PassageEdges) = 3
    /\ \E x \in Allowed : parent[parent[x]] # parent[x]

\* C19: at every iteration of the backtracker loop the index the strategy selects
\* is an index of the non-empty frontier ("last": length - 1, "first": 0,
\* "random": any of them, a string the code does not name: length - 1); the
\* frontier holds no cell twice and visited cells only; on a fresh Maze the
\* passages carved so far number |visited| - 1; an entry is removed only when
\* its cell has no unvisited allowed 4-neighbour, so no visited cell outside the
\* frontier has one.
C19_LoopInvariant ==
    /\ []((pc = "bt" /\ stack # <<>>) =>
             LET sel == SelectIndex(strategy, Len(stack), rng)
             IN  /\ sel # {}
                 /\ \A ic \in sel : ic.v \in 0..(Len(stack) - 1)
                 /\ strategy.name \in {"last", "spiral"} =>
                       \A ic \in sel : ic.v = Len(stack) - 1
                 /\ strategy.name = "first" => \A ic \in sel : ic.v = 0)
    /\ [](pc = "bt" =>
             /\ Cardinality(Range(stack)) = Len(stack)
             /\ Range(stack) \subseteq visited
             /\ runFresh => Cardinality(PassageEdges) = Cardinality(visited) - 1
             /\ \A c \in visited \ Range(stack) : ~HasUnvisitedNeighbour(c))
    /\ [][(pc = "bt" /\ Len(stack') < Len(stack)) =>
             /\ visited' = visited
             /\ grid' = grid
             /\ \E i \in DOMAIN stack :
                   /\ stack' = [j \in 1..(Len(stack) - 1) |->
                                   IF j < i THEN stack[j] ELSE stack[j + 1]]
                   /\ ~HasUnvisitedNeighbour(stack[i])]_vars

C19_Witness ==
    /\ pc = "bt"
    /\ runFresh
    /\ strategy.name = "first"
    /\ Cardinality(visited) = 4
    /\ Len(stack) = 2
    /\ stack[1] # start

\* C20: for any mask, a run of either generator on a fresh Maze leaves a passage
\* graph without a cycle.  generate_kruskal links two allowed cells by passages
\* exactly when a chain of 4-adjacent allowed cells links them, and carves
\* |allowed cells| minus the number of groups passages.  The backtracker carves a
\* tree that spans the group of its start cell and nothing else: every allowed
\* cell outside that group keeps all four walls.
C20_Forest ==
    (RunEnded /\ runFresh) =>
        /\ Acyclic(PassageEdges)
        /\ KrEnded =>
              /\ \A a, b \in Allowed :
                    b \in Closure({a}, PassageEdges) <=> b \in Closure({a}, AdjacentPairs)
              /\ Cardinality(PassageEdges) = Cardinality(Allowed) - Cardinality(Groups)
        /\ BtEnded =>
              LET G == Closure({start}, AdjacentPairs)
              IN  /\ Closure({start}, PassageEdges) = G
                  /\ \A e \in PassageEdges : e \subseteq G
                  /\ Cardinality(PassageEdges) = Cardinality(G) - 1
                  /\ \A c \in Allowed \ G : WalledIn(c)

C20_Witness ==
    /\ BtEnded
    /\ runFresh
    /\ ~CellsConnected
    /\ Cardinality(Allowed) = 3
    /\ Cardinality(PassageEdges) = 1
    /\ strategy.kind = "float"

====
